---- MODULE Spec2Model ----
(***************************************************************************)
(* Model of the event-driven RAG document assistant.                       *)
(*                                                                         *)
(* State: the Qdrant backend (collections, stored points), the uploads     *)
(* directory, the ingestion runs (one per uploaded document, executed by   *)
(* the Inngest job handler or inline by the upload route), the API         *)
(* module's VectorStore construction, and the response of the API request  *)
(* handled by the step just taken.                                         *)
(*                                                                         *)
(* Texts are modelled by their extent: a text is a span [text, from, to)   *)
(* of characters of a source text, so that splitting is arithmetic on      *)
(* character offsets.  Embedding vectors are unit vectors of the           *)
(* configured dimensionality pointing in one of four directions of a       *)
(* plane, which makes the cosine similarity an integer (in hundredths).    *)
(***************************************************************************)
EXTENDS Integers, Sequences, FiniteSets, TLC

\* ------------------------------------------------------------------ bounds

\* Number of accepted uploads (document identifiers generated).
MaxUploads == 1

\* ------------------------------------------------------- program constants

chunk_size == 1000
chunk_overlap == 200
batch_size == 100
embedding_dimension == 1536
top_k_min == 1
top_k_max == 20
PageMarkerFixedLen == 15

CollectionName == "documents"
\* A suffix test that forgets the dot.
PdfSuffixWithoutDot == <<"p", "d", "f">>

\* file.filename.endswith('.pdf')
PdfSuffix == <<".", "p", "d", "f">>

\* ------------------------------------------------------------------ inputs

\* File names offered to the upload route, as character sequences.
FileNames ==
    { <<"r", ".", "p", "d", "f">>,
      <<"n", ".", "t", "x", "t">>,
      <<"p", "d", "f">> }

\* Uploaded byte streams: whether pypdf can read them, and the length in
\* characters of the text of each page.
Samples ==
    { [id |-> 1, valid |-> FALSE, pages |-> <<>>],
      [id |-> 2, valid |-> TRUE,  pages |-> <<0, 0>>],
      [id |-> 3, valid |-> TRUE,  pages |-> <<1200, 0, 1300>>] }

\* Documents of more than one batch of chunks (101 and 200 chunks).
LargeSamples ==
    { [id |-> 4, valid |-> TRUE, pages |-> <<80500>>],
      [id |-> 6, valid |-> TRUE, pages |-> <<80000, 80168>>] }

\* The file of a document ingested before the model starts.
OldSample == [id |-> 5, valid |-> TRUE, pages |-> <<900, 700>>]
OldName == <<"o", ".", "p", "d", "f">>

\* Query strings: the text of a chunk of sample 3 and of one of the old
\* document.
QueryTexts ==
    { [text |-> 3, from |-> 0, to |-> 1000],
      [text |-> 5, from |-> 800, to |-> 1632] }

\* The external call of a query that fails, if any.
Faults == {"none", "embedding", "search", "chat"}

\* What goes wrong in an upload or in an ingestion step, if anything: the
\* file write, the event dispatch, an embedding call (for the first or the
\* last chunk), a batch write (the first or the second), the file removal.
UploadFaults == {"none", "write", "send", "send+embed-first", "send+embed-last",
                 "send+batch-1", "send+batch-2", "send+remove"}
EmbedFaults == {"none", "embed-first", "embed-last"}

\* Values of top_k the model draws from the range the request schema allows.
TopKs == {top_k_min, 3, top_k_max}

\* ----------------------------------------------------------------- helpers

Min(a, b) == IF a < b THEN a ELSE b

Range(s) == { s[i] : i \in DOMAIN s }

RECURSIVE SumSeq(_)
SumSeq(s) == IF s = <<>> THEN 0 ELSE Head(s) + SumSeq(Tail(s))

\* str.endswith
EndsWith(s, suffix) ==
    /\ Len(s) >= Len(suffix)
    /\ SubSeq(s, Len(s) - Len(suffix) + 1, Len(s)) = suffix

\* ------------------------------------------------------ document processor

Digits(n) == IF n < 10 THEN 1 ELSE IF n < 100 THEN 2 ELSE 3

\* Length of "\n--- Page N ---\n".
PageMarkerLen(n) == PageMarkerFixedLen + Digits(n)

\* DocumentProcessor.extract_text_from_pdf: the pages in order, each page
\* with text contributing its marker and its text, the others nothing.
extract_text_from_pdf(sample) ==
    [text |-> sample.id,
     len  |-> SumSeq([i \in DOMAIN sample.pages |->
                        IF sample.pages[i] > 0
                        THEN PageMarkerLen(i) + sample.pages[i]
                        ELSE 0])]

\* A splitter that returns the empty text as one empty piece.
split_text_keeping_empty(text) ==
    LET step == chunk_size - chunk_overlap
        n == IF text.len <= chunk_size THEN 1
             ELSE 1 + ((text.len - chunk_size + step - 1) \div step)
    IN [i \in 1..n |->
          [text |-> text.text,
           from |-> (i - 1) * step,
           to   |-> Min(text.len, (i - 1) * step + chunk_size)]]

\* RecursiveCharacterTextSplitter.split_text on a text without natural
\* boundaries: windows of chunk_size characters, each starting
\* chunk_size - chunk_overlap after the previous one, the last one ending
\* with the text.
split_text(text) ==
    LET step == chunk_size - chunk_overlap
        n == IF text.len = 0 THEN 0
             ELSE IF text.len <= chunk_size THEN 1
             ELSE 1 + ((text.len - chunk_size + step - 1) \div step)
    IN [i \in 1..n |->
          [text |-> text.text,
           from |-> (i - 1) * step,
           to   |-> Min(text.len, (i - 1) * step + chunk_size)]]

\* A chunker that numbers the chunks from one.
chunk_text_from_one(text, metadata) ==
    LET chunks == split_text(text)
    IN [i \in 1..Len(chunks) |->
          [content  |-> chunks[i],
           metadata |-> [k \in DOMAIN metadata \cup {"chunk_index", "total_chunks"} |->
                           IF k = "chunk_index" THEN i
                           ELSE IF k = "total_chunks" THEN Len(chunks)
                           ELSE metadata[k]]]]

\* DocumentProcessor.chunk_text
chunk_text(text, metadata) ==
    LET chunks == split_text(text)
    IN [i \in 1..Len(chunks) |->
          [content  |-> chunks[i],
           metadata |-> [k \in DOMAIN metadata \cup {"chunk_index", "total_chunks"} |->
                           IF k = "chunk_index" THEN i - 1
                           ELSE IF k = "total_chunks" THEN Len(chunks)
                           ELSE metadata[k]]]]

\* DocumentProcessor.process_document on a readable file.
process_document(sample, file_path, document_id, filename) ==
    chunk_text(extract_text_from_pdf(sample),
               [document_id |-> document_id,
                filename    |-> filename,
                file_path   |-> file_path])

\* f"uploads/{document_id}_{file.filename}"
UploadPath(document_id, filename) == <<"uploads", document_id, filename>>

\* ------------------------------------------------------------ vector store

\* VectorStore.generate_embedding on a successful call of the embedding
\* model: a deterministic function of the text.
generate_embedding(t) ==
    [dim |-> embedding_dimension,
     dir |-> (t.text + (t.from \div (chunk_size - chunk_overlap))) % 4]

\* Cosine similarity of two unit vectors, in hundredths.
Cosine(a, b) ==
    LET turn == (a.dir - b.dir) % 4
    IN IF turn = 0 THEN 100 ELSE IF turn = 2 THEN 0 - 100 ELSE 0

\* The payload add_documents builds: {"content": ..., **chunk["metadata"]}.
Payload(chunk) ==
    [k \in {"content"} \cup DOMAIN chunk.metadata |->
       IF k \in DOMAIN chunk.metadata THEN chunk.metadata[k] ELSE chunk.content]

\* The point add_documents builds for chunk number i with identifier id.
PointStruct(id, chunk) ==
    [id |-> id, vector |-> generate_embedding(chunk.content), payload |-> Payload(chunk)]

\* The points of add_documents' first loop; uuid4 draws identifiers never
\* drawn before (identifiers are numbered in the order they are drawn).
BuildPoints(chunks, drawn) ==
    [i \in 1..Len(chunks) |-> PointStruct(drawn + i, chunks[i])]

\* The start offsets of add_documents' batches: range(0, len(points), batch_size).
BatchStarts(n) == { i \in 0..n : i < n /\ i % batch_size = 0 }

\* A slice that stops one point short: points[i:i + batch_size - 1].
BatchOneShort(pts, i) == SubSeq(pts, i + 1, Min(Len(pts), i + batch_size - 1))

\* points[i:i + batch_size]
Batch(pts, i) == SubSeq(pts, i + 1, Min(Len(pts), i + batch_size))

\* Qdrant upsert of one batch: a point whose identifier is stored is
\* replaced in place, the others are appended in order.
Upsert(stored, batch) ==
    LET ids == { batch[j].id : j \in DOMAIN batch }
        kept == [j \in DOMAIN stored |->
                   IF stored[j].id \in ids
                   THEN (CHOOSE p \in Range(batch) : p.id = stored[j].id)
                   ELSE stored[j]]
        old == { stored[j].id : j \in DOMAIN stored }
    IN kept \o SelectSeq(batch, LAMBDA p : p.id \notin old)

\* Qdrant search: the stored points by descending similarity to the query
\* vector, ties in insertion order, cut to the limit.
RECURSIVE RankByScore(_, _, _)
RankByScore(stored, vector, scores) ==
    IF scores = {} THEN <<>>
    ELSE LET best == CHOOSE s \in scores : \A t \in scores : t <= s
         IN SelectSeq(stored, LAMBDA p : Cosine(vector, p.vector) = best)
            \o RankByScore(stored, vector, scores \ {best})

BackendSearch(stored, vector, limit) ==
    LET ranked == RankByScore(stored, vector,
                              { Cosine(vector, stored[j].vector) : j \in DOMAIN stored })
        hits == SubSeq(ranked, 1, Min(limit, Len(ranked)))
    IN [j \in DOMAIN hits |->
          [id |-> hits[j].id, payload |-> hits[j].payload,
           score |-> Cosine(vector, hits[j].vector)]]

\* The formatting loop of VectorStore.search.
FormatResults(results) ==
    [j \in DOMAIN results |->
       [content  |-> results[j].payload.content,
        metadata |-> [k \in DOMAIN results[j].payload \ {"content"} |->
                        results[j].payload[k]],
        score    |-> results[j].score]]

\* A search that asks the backend for one result more than requested.
SearchOneMore(stored, query, top_k) ==
    FormatResults(BackendSearch(stored, generate_embedding(query), top_k + 1))

\* VectorStore.search on successful embedding and backend calls.
search(stored, query, top_k) ==
    FormatResults(BackendSearch(stored, generate_embedding(query), top_k))

\* A delete that removes the first matching point only.
DeleteFirstMatch(stored, document_id) ==
    LET hits == { j \in DOMAIN stored : stored[j].payload.document_id = document_id }
        first == IF hits = {} THEN 0 ELSE CHOOSE j \in hits : \A k \in hits : j <= k
    IN [j \in 1..(Len(stored) - (IF first = 0 THEN 0 ELSE 1)) |->
          IF first = 0 \/ j < first THEN stored[j] ELSE stored[j + 1]]

\* Qdrant delete with the filter document_id = value.
DeleteFiltered(stored, document_id) ==
    SelectSeq(stored, LAMBDA p : p.payload.document_id # document_id)

\* The names _ensure_collection_exists reads from get_collections.
CollectionNames(colls) == { colls[j].name : j \in DOMAIN colls }

\* The collection _ensure_collection_exists asks the backend to create.
NewCollection ==
    [name |-> CollectionName, size |-> embedding_dimension, distance |-> "Cosine"]

\* A constructor that creates the collection whatever the backend holds.
AlwaysCreate(names) == TRUE

\* if self.collection_name not in collection_names
MustCreate(names) == CollectionName \notin names

\* The backing collection, when the backend holds one.
HasCollection(colls) == CollectionName \in CollectionNames(colls)
Backing(colls) == CHOOSE c \in Range(colls) : c.name = CollectionName

\* ------------------------------------------------------------------- state

VARIABLES
    collections,  \* backend: the collections, in creation order
    points,       \* backend: the points of the backing collection, in insertion order
    disk,         \* the uploads directory: file path -> stored bytes
    drawn,        \* number of point identifiers uuid4 has drawn
    uploads,      \* number of document identifiers uuid4 has drawn
    runs,         \* document identifier -> ingestion run
    api,          \* the routes module's VectorStore construction
    resp,         \* response of the API request handled by the step just taken
    deleted,      \* history: identifiers delete_by_document_id has returned for
    clean,        \* history: those of them no upsert has stored a chunk of since
    written,      \* history: the chunks an upsert has stored, with their identifiers
    creates       \* history: number of create_collection calls issued

vars == <<collections, points, disk, drawn, uploads, runs, api, resp,
          deleted, clean, written, creates>>

\* What the history records of a stored point.
Record(p) ==
    [id |-> p.id, document_id |-> p.payload.document_id,
     chunk_index |-> p.payload.chunk_index]

DocIds == 1..MaxUploads
OldDoc == 0

NoResp == [kind |-> "none"]
NoResult == [kind |-> "none"]
NoText == [text |-> 0, len |-> 0]

NoRun ==
    [pc |-> "none", mode |-> "none", document_id |-> 0, file_path |-> <<>>,
     filename |-> <<>>, text |-> NoText, chunks |-> <<>>, points |-> <<>>,
     point_ids |-> <<>>, next |-> 0, names |-> {}, steps |-> <<>>,
     at_cleanup |-> {}, result |-> NoResult]

\* What the backend may hold when the application starts.
OldPoints ==
    BuildPoints(process_document(OldSample, UploadPath(OldDoc, OldName), OldDoc, OldName), 0)

GoodBackends ==
    { [collections |-> <<NewCollection>>, points |-> <<>>],
      [collections |-> <<NewCollection>>, points |-> OldPoints] }

InitBackends ==
    GoodBackends \cup
    { [collections |-> <<[name |-> "other", size |-> 768, distance |-> "Dot"]>>,
       points |-> <<>>],
      [collections |-> <<[name |-> CollectionName, size |-> 768, distance |-> "Cosine"]>>,
       points |-> <<>>],
      [collections |-> <<[name |-> CollectionName, size |-> embedding_dimension,
                          distance |-> "Dot"]>>,
       points |-> <<>>] }

\* An upload another instance of the application accepted and whose event
\* the job runner has not delivered yet.
PendingName == <<"q", ".", "p", "d", "f">>
PendingSamples == { x \in Samples : x.id = 3 }

PendingRun(document_id) ==
    [NoRun EXCEPT !.pc = "received", !.mode = "job", !.document_id = document_id,
                  !.file_path = UploadPath(document_id, PendingName),
                  !.filename = PendingName]

\* The states the application may start in: the backend holds one of
\* `backends`; either no upload was accepted yet (when `fresh`), or `count`
\* were and the event of the last one, a file of `pending`, is not
\* delivered yet.
InitWith(backends, fresh, pending, count) ==
    /\ \E b \in backends :
          /\ collections = b.collections
          /\ points = b.points
          /\ drawn = Len(b.points)
          /\ written = { Record(b.points[j]) : j \in DOMAIN b.points }
    /\ \/ /\ fresh
          /\ uploads = 0
          /\ disk = << >>
          /\ runs = [d \in DocIds |-> NoRun]
       \/ \E sample \in pending :
             /\ uploads = count
             /\ disk = (UploadPath(count, PendingName) :> sample)
             /\ runs = [d \in DocIds |-> IF d = count THEN PendingRun(count) ELSE NoRun]
    /\ api = [pc |-> "check", names |-> {}, error |-> "none"]
    /\ resp = NoResp
    /\ deleted = {}
    /\ clean = {}
    /\ creates = 0

\* The backends that hold no backing collection yet.
ColdBackends == { b \in InitBackends : ~HasCollection(b.collections) }

\* The application starts with no upload, or, on a backend without the
\* collection, with the first one pending.
Init ==
    \/ InitWith(InitBackends, TRUE, {}, 1)
    \/ InitWith(ColdBackends, FALSE, PendingSamples, 1)

\* The application starts with a document of no chunk or of more than one
\* batch pending, the last upload it accepts.
BatchBackends ==
    { b \in InitBackends : b.points # <<>> \/ ~HasCollection(b.collections) }

BatchSamples == LargeSamples \cup { x \in Samples : x.pages = <<0, 0>> }

InitBatch == InitWith(BatchBackends, FALSE, BatchSamples, MaxUploads)

\* ------------------------------------------- VectorStore.__init__ (routes)

\* collections = self.client.get_collections().collections
ApiCheck(ok) ==
    /\ api.pc = "check"
    /\ api' = IF ~ok THEN [api EXCEPT !.pc = "failed", !.error = "ConnectionError"]
              ELSE [pc |-> IF MustCreate(CollectionNames(collections))
                           THEN "create" ELSE "ready",
                    names |-> CollectionNames(collections),
                    error |-> "none"]
    /\ resp' = NoResp
    /\ UNCHANGED <<collections, points, disk, drawn, uploads, runs,
                   deleted, clean, written, creates>>

\* self.client.create_collection(...): the backend refuses a name it holds.
ApiCreate(ok) ==
    /\ api.pc = "create"
    /\ creates' = creates + 1
    /\ IF ok /\ ~HasCollection(collections)
       THEN /\ collections' = Append(collections, NewCollection)
            /\ api' = [api EXCEPT !.pc = "ready"]
       ELSE /\ api' = [api EXCEPT !.pc = "failed",
                                   !.error = IF ok THEN "Conflict" ELSE "ConnectionError"]
            /\ UNCHANGED collections
    /\ resp' = NoResp
    /\ UNCHANGED <<points, disk, drawn, uploads, runs, deleted, clean, written>>

ApiReady == api.pc = "ready"

\* ---------------------------------------------------------- ingestion runs

\* The steps of a run are functions of the run and of what it reads and
\* writes: w = [run, disk, points, drawn, written, clean].

\* An except branch that returns the error without the document identifier.
FailedAnonymous(r, error) ==
    [r EXCEPT !.pc = "failed",
              !.result = IF r.mode = "job"
                         THEN [success |-> FALSE, error |-> error]
                         ELSE [status_code |-> 500,
                               detail |-> <<"Error processing document", error>>]]

\* The except branches: the job handler returns the failure record, the
\* upload route raises HTTP 500.
Failed(r, error) ==
    [r EXCEPT !.pc = "failed",
              !.result = IF r.mode = "job"
                         THEN [success |-> FALSE, document_id |-> r.document_id,
                               error |-> error]
                         ELSE [status_code |-> 500,
                               detail |-> <<"Error processing document", error>>]]

\* The return statements after the cleanup.
Completed(r) ==
    [r EXCEPT !.pc = "completed",
              !.result = IF r.mode = "job"
                         THEN [success |-> TRUE, document_id |-> r.document_id,
                               chunks_processed |-> Len(r.chunks),
                               point_ids |-> r.point_ids]
                         ELSE [status_code |-> 200, document_id |-> r.document_id,
                               filename |-> r.filename, status |-> "completed"]]

\* A dispatch that passes the file name where the path is expected.
StartedWithName(mode, document_id, file_path, filename) ==
    [NoRun EXCEPT !.pc = "received", !.mode = mode, !.document_id = document_id,
                  !.file_path = filename, !.filename = filename]

\* A run the moment it is handed its three fields.
Started(mode, document_id, file_path, filename) ==
    [NoRun EXCEPT !.pc = "received", !.mode = mode, !.document_id = document_id,
                  !.file_path = file_path, !.filename = filename]

\* A handler that goes from the chunks straight to the cleanup.
AfterChunkingSkipping(r) == "cleanup"

\* The step that follows process_document: the job handler constructs its
\* own VectorStore, the upload route uses the module's.
AfterChunking(r) == IF r.mode = "job" THEN "check" ELSE "embedding"

\* A pipeline that goes on to the cleanup once the points are built.
AfterEmbeddingSkipping(r) == "cleanup"

\* The step that follows add_documents' first loop: no batch is issued for
\* an empty list.
AfterEmbedding(r) == IF BatchStarts(Len(r.chunks)) = {} THEN "cleanup" ELSE "storing"

\* The step that follows the batch starting at r.next.
AfterBatch(r) ==
    IF r.next + batch_size \in BatchStarts(Len(r.points)) THEN "storing" ELSE "cleanup"

\* processor.process_document(file_path, document_id, filename)
ProcessPdfStep(w) ==
    LET r == w.run
        s == [r EXCEPT !.steps = Append(@, "extracting")]
    IN [w EXCEPT !.run =
          IF r.file_path \notin DOMAIN w.disk
          THEN Failed(s, "FileNotFoundError")
          ELSE IF ~w.disk[r.file_path].valid
          THEN Failed(s, "PdfReadError")
          ELSE [s EXCEPT !.pc = AfterChunking(r),
                         !.steps = Append(@, "chunking"),
                         !.text = extract_text_from_pdf(w.disk[r.file_path]),
                         !.chunks = process_document(w.disk[r.file_path], r.file_path,
                                                     r.document_id, r.filename)]]

\* The chunk whose embedding call fails (0: none).
FailAt(fault, n) ==
    IF fault \in {"embed-first", "send+embed-first"} THEN Min(1, n)
    ELSE IF fault \in {"embed-last", "send+embed-last"} THEN n
    ELSE 0

\* The start offset of the batch whose write fails (-1: none).
FailBatch(fault) ==
    IF fault = "send+batch-1" THEN 0
    ELSE IF fault = "send+batch-2" THEN batch_size
    ELSE 0 - 1

\* An add_documents that writes each point as soon as it is embedded.
EmbedStepStreaming(w, fault) ==
    LET r == w.run
        s == [r EXCEPT !.steps = Append(@, "storing")]
        failAt == FailAt(fault, Len(r.chunks))
        pts == BuildPoints(r.chunks, w.drawn)
        done == SubSeq(pts, 1, failAt - 1)
    IN IF failAt = 0
       THEN [w EXCEPT !.drawn = @ + Len(r.chunks),
                      !.run = [s EXCEPT !.pc = AfterEmbedding(r),
                                        !.points = pts,
                                        !.point_ids = [i \in DOMAIN pts |-> pts[i].id],
                                        !.next = 0]]
       ELSE [w EXCEPT !.drawn = @ + (failAt - 1),
                      !.points = Upsert(@, done),
                      !.written = @ \cup { Record(done[j]) : j \in DOMAIN done },
                      !.run = Failed(s, "EmbeddingError")]

\* add_documents, first loop: one embedding call and one uuid4 per chunk.
EmbedStep(w, fault) ==
    LET r == w.run
        s == [r EXCEPT !.steps = Append(@, "storing")]
        failAt == FailAt(fault, Len(r.chunks))
        pts == BuildPoints(r.chunks, w.drawn)
    IN IF failAt = 0
       THEN [w EXCEPT !.drawn = @ + Len(r.chunks),
                      !.run = [s EXCEPT !.pc = AfterEmbedding(r),
                                        !.points = pts,
                                        !.point_ids = [i \in DOMAIN pts |-> pts[i].id],
                                        !.next = 0]]
       ELSE [w EXCEPT !.drawn = @ + (failAt - 1),
                      !.run = Failed(s, "EmbeddingError")]

\* Whether the backend accepts a batch: the collection exists and every
\* vector has its dimensionality.
Accepts(colls, batch) ==
    /\ HasCollection(colls)
    /\ \A j \in DOMAIN batch : batch[j].vector.dim = Backing(colls).size

\* An upsert that withdraws the document's earlier batches when one fails.
StoreBatchRollingBack(w, colls, ok) ==
    LET r == w.run
        batch == Batch(r.points, r.next)
    IN IF ok /\ Accepts(colls, batch)
       THEN [w EXCEPT !.points = Upsert(@, batch),
                      !.written = @ \cup { Record(batch[j]) : j \in DOMAIN batch },
                      !.clean = @ \ { batch[j].payload.document_id : j \in DOMAIN batch },
                      !.run = [r EXCEPT !.pc = AfterBatch(r), !.next = @ + batch_size]]
       ELSE [w EXCEPT !.points = DeleteFiltered(@, r.document_id),
                      !.run = Failed(r, IF ok THEN "UnexpectedResponse"
                                        ELSE "ConnectionError")]

\* add_documents, second loop: the upsert of the batch starting at r.next.
StoreBatchStep(w, colls, ok) ==
    LET r == w.run
        batch == Batch(r.points, r.next)
    IN IF ok /\ Accepts(colls, batch)
       THEN [w EXCEPT !.points = Upsert(@, batch),
                      !.written = @ \cup { Record(batch[j]) : j \in DOMAIN batch },
                      !.clean = @ \ { batch[j].payload.document_id : j \in DOMAIN batch },
                      !.run = [r EXCEPT !.pc = AfterBatch(r), !.next = @ + batch_size]]
       ELSE [w EXCEPT !.run = Failed(r, IF ok THEN "UnexpectedResponse"
                                        ELSE "ConnectionError")]

\* The chunk indices of a document an upsert has stored.
WrittenOf(recs, document_id) ==
    { x.chunk_index : x \in { y \in recs : y.document_id = document_id } }

\* A cleanup that removes the file before it reports what went wrong.
CleanupRemovingFirst(w, ok) ==
    LET r == w.run
        s == [r EXCEPT !.steps = Append(@, "cleaning_up"),
                       !.at_cleanup = WrittenOf(w.written, r.document_id)]
        gone == [f \in DOMAIN w.disk \ {r.file_path} |-> w.disk[f]]
    IN [w EXCEPT !.disk = gone,
                 !.run = IF ok THEN Completed(s) ELSE Failed(s, "PermissionError")]

\* os.remove(file_path) if os.path.exists(file_path) else None, then return.
\* The run notes which chunks were stored when the stage began.
CleanupStep(w, ok) ==
    LET r == w.run
        s == [r EXCEPT !.steps = Append(@, "cleaning_up"),
                       !.at_cleanup = WrittenOf(w.written, r.document_id)]
    IN IF r.file_path \notin DOMAIN w.disk
       THEN [w EXCEPT !.run = Completed(s)]
       ELSE IF ok
       THEN [w EXCEPT !.disk = [f \in DOMAIN w.disk \ {r.file_path} |-> w.disk[f]],
                      !.run = Completed(s)]
       ELSE [w EXCEPT !.run = Failed(s, "PermissionError")]

\* The upload route's fallback: the pipeline run to its end within the request.
RECURSIVE StoreAll(_, _, _)
StoreAll(w, colls, fault) ==
    IF w.run.pc # "storing" THEN w
    ELSE StoreAll(StoreBatchStep(w, colls, w.run.next # FailBatch(fault)), colls, fault)

InlinePipeline(w, colls, fault) ==
    LET w1 == ProcessPdfStep(w)
        w2 == IF w1.run.pc = "embedding" THEN EmbedStep(w1, fault) ELSE w1
        w3 == StoreAll(w2, colls, fault)
    IN IF w3.run.pc = "cleanup" THEN CleanupStep(w3, fault # "send+remove") ELSE w3

World(r) == [run |-> r, disk |-> disk, points |-> points, drawn |-> drawn,
             written |-> written, clean |-> clean]

\* The state after a step of the run of document d that ends in w.
Becomes(d, w) ==
    /\ runs' = [runs EXCEPT ![d] = w.run]
    /\ disk' = w.disk
    /\ points' = w.points
    /\ drawn' = w.drawn
    /\ written' = w.written
    /\ clean' = w.clean

\* upload_document
upload_document(name) ==
    /\ ApiReady
    /\ resp = NoResp
    /\ IF ~EndsWith(name, PdfSuffix)
       THEN /\ resp' = [kind |-> "upload", status_code |-> 400,
                        detail |-> "Only PDF files are supported"]
            /\ UNCHANGED <<disk, uploads, runs, points, drawn, written, clean>>
       ELSE /\ uploads < MaxUploads
            /\ \E sample \in Samples, fault \in UploadFaults :
               LET document_id == uploads + 1
                   file_path == UploadPath(document_id, name)
                   saved == [World(NoRun) EXCEPT !.disk = (file_path :> sample) @@ @]
               IN IF fault = "write"
                  THEN /\ resp' = [kind |-> "upload", status_code |-> 500,
                                   detail |-> <<"Error processing document", "OSError">>]
                       /\ UNCHANGED <<disk, uploads, runs, points, drawn, written, clean>>
                  ELSE /\ uploads' = document_id
                       /\ IF fault = "none"
                          THEN /\ Becomes(document_id,
                                     [saved EXCEPT !.run =
                                        Started("job", document_id, file_path, name)])
                               /\ resp' = [kind |-> "upload", status_code |-> 200,
                                           document_id |-> document_id,
                                           filename |-> name, status |-> "processing"]
                          ELSE LET w == InlinePipeline(
                                          [saved EXCEPT !.run =
                                             Started("inline", document_id, file_path, name)],
                                          collections, fault)
                               IN /\ Becomes(document_id, w)
                                  /\ resp' = [kind |-> "upload"] @@ w.run.result
    /\ UNCHANGED <<collections, api, deleted, creates>>

\* The job runner invokes process_document_function: step "process-pdf".
ProcessPdf(d) ==
    /\ runs[d].pc = "received"
    /\ runs[d].mode = "job"
    /\ Becomes(d, ProcessPdfStep(World(runs[d])))
    /\ resp' = NoResp
    /\ UNCHANGED <<collections, uploads, api, deleted, creates>>

\* VectorStore.__init__ in the job handler: get_collections.
EnsureCheck(d, ok) ==
    LET r == runs[d]
    IN /\ r.pc = "check"
       /\ runs' = [runs EXCEPT ![d] =
                     IF ~ok THEN Failed(r, "ConnectionError")
                     ELSE [r EXCEPT !.names = CollectionNames(collections),
                                    !.pc = IF MustCreate(CollectionNames(collections))
                                           THEN "create" ELSE "embedding"]]
       /\ resp' = NoResp
       /\ UNCHANGED <<collections, points, disk, drawn, uploads, api, deleted,
                      clean, written, creates>>

\* VectorStore.__init__ in the job handler: create_collection.
EnsureCreate(d, ok) ==
    LET r == runs[d]
    IN /\ r.pc = "create"
       /\ creates' = creates + 1
       /\ IF ok /\ ~HasCollection(collections)
          THEN /\ collections' = Append(collections, NewCollection)
               /\ runs' = [runs EXCEPT ![d].pc = "embedding"]
          ELSE /\ runs' = [runs EXCEPT ![d] =
                             Failed(r, IF ok THEN "Conflict" ELSE "ConnectionError")]
               /\ UNCHANGED collections
       /\ resp' = NoResp
       /\ UNCHANGED <<points, disk, drawn, uploads, api, deleted, clean, written>>

\* Step "store-embeddings", first loop of add_documents.
Embed(d, fault) ==
    /\ runs[d].pc = "embedding"
    /\ Becomes(d, EmbedStep(World(runs[d]), fault))
    /\ resp' = NoResp
    /\ UNCHANGED <<collections, uploads, api, deleted, creates>>

\* Step "store-embeddings", one batch of the second loop of add_documents.
StoreBatch(d, ok) ==
    /\ runs[d].pc = "storing"
    /\ Becomes(d, StoreBatchStep(World(runs[d]), collections, ok))
    /\ resp' = NoResp
    /\ UNCHANGED <<collections, uploads, api, deleted, creates>>

\* Step "cleanup" and the return.
Cleanup(d, ok) ==
    /\ runs[d].pc = "cleanup"
    /\ Becomes(d, CleanupStep(World(runs[d]), ok))
    /\ resp' = NoResp
    /\ UNCHANGED <<collections, uploads, api, deleted, creates>>

\* ------------------------------------------------------------------- query

\* RAGService.generate_answer on a successful call of the chat model.
generate_answer(query, context_documents) ==
    [answer |-> "answer", sources |-> context_documents]

\* Whether the backend answers a search: the collection exists and the
\* query vector has its dimensionality.
Searchable(colls, vector) ==
    /\ HasCollection(colls)
    /\ vector.dim = Backing(colls).size

\* What the model records of a handled query: the request, the HTTP
\* response (status_code, detail, sources), the external call that failed,
\* the number of chat-model calls and what the index search returned.
QueryResp(query, top_k, status_code, detail, failed, llm_calls, documents, sources) ==
    [kind |-> "query", query |-> query, top_k |-> top_k,
     status_code |-> status_code, detail |-> detail, failed |-> failed,
     llm_calls |-> llm_calls, documents |-> documents, sources |-> sources]

\* A query route without the test for an empty search result.
QueryWithoutEmptyTest(colls, stored, query, top_k, fault) ==
    IF fault = "embedding"
    THEN QueryResp(query, top_k, 500, "Error processing query", "embedding", 0, <<>>, <<>>)
    ELSE IF fault = "search" \/ ~Searchable(colls, generate_embedding(query))
    THEN QueryResp(query, top_k, 500, "Error processing query", "search", 0, <<>>, <<>>)
    ELSE LET documents == search(stored, query, top_k)
         IN IF fault = "chat"
            THEN QueryResp(query, top_k, 500, "Error processing query", "chat", 1,
                           documents, <<>>)
            ELSE QueryResp(query, top_k, 200, "", "none", 1, documents,
                           generate_answer(query, documents).sources)

\* A query route whose generic handler also catches the 404 it raised.
QueryCatchingNotFound(colls, stored, query, top_k, fault) ==
    IF fault = "embedding"
    THEN QueryResp(query, top_k, 500, "Error processing query", "embedding", 0, <<>>, <<>>)
    ELSE IF fault = "search" \/ ~Searchable(colls, generate_embedding(query))
    THEN QueryResp(query, top_k, 500, "Error processing query", "search", 0, <<>>, <<>>)
    ELSE LET documents == search(stored, query, top_k)
         IN IF documents = <<>>
            THEN QueryResp(query, top_k, 500, "Error processing query", "none", 0,
                           documents, <<>>)
            ELSE IF fault = "chat"
            THEN QueryResp(query, top_k, 500, "Error processing query", "chat", 1,
                           documents, <<>>)
            ELSE QueryResp(query, top_k, 200, "", "none", 1, documents,
                           generate_answer(query, documents).sources)

\* The body of query_documents; fault names the external call that fails,
\* if any.
QueryOutcome(colls, stored, query, top_k, fault) ==
    IF fault = "embedding"
    THEN QueryResp(query, top_k, 500, "Error processing query", "embedding", 0, <<>>, <<>>)
    ELSE IF fault = "search" \/ ~Searchable(colls, generate_embedding(query))
    THEN QueryResp(query, top_k, 500, "Error processing query", "search", 0, <<>>, <<>>)
    ELSE LET documents == search(stored, query, top_k)
         IN IF documents = <<>>
            THEN QueryResp(query, top_k, 404, "No relevant documents found", "none", 0,
                           documents, <<>>)
            ELSE IF fault = "chat"
            THEN QueryResp(query, top_k, 500, "Error processing query", "chat", 1,
                           documents, <<>>)
            ELSE QueryResp(query, top_k, 200, "", "none", 1, documents,
                           generate_answer(query, documents).sources)

\* query_documents
query_documents(query, top_k, fault) ==
    /\ ApiReady
    /\ resp = NoResp
    /\ resp' = QueryOutcome(collections, points, query, top_k, fault)
    /\ UNCHANGED <<collections, points, disk, drawn, uploads, runs, api,
                   deleted, clean, written, creates>>

\* ------------------------------------------------------------------ delete

\* VectorStore.delete_by_document_id, called on the module's vector store.
delete_by_document_id(document_id, ok) ==
    /\ ApiReady
    /\ resp = NoResp
    /\ IF ok /\ HasCollection(collections)
       THEN /\ points' = DeleteFiltered(points, document_id)
            /\ deleted' = deleted \cup {document_id}
            /\ clean' = clean \cup {document_id}
            /\ resp' = [kind |-> "delete", document_id |-> document_id, ok |-> TRUE]
       ELSE /\ resp' = [kind |-> "delete", document_id |-> document_id, ok |-> FALSE]
            /\ UNCHANGED <<points, deleted, clean>>
    /\ UNCHANGED <<collections, disk, drawn, uploads, runs, api, written, creates>>

\* ----------------------------------------------------------- specification

Next ==
    \/ \E ok \in BOOLEAN : ApiCheck(ok)
    \/ \E ok \in BOOLEAN : ApiCreate(ok)
    \/ \E name \in FileNames : upload_document(name)
    \/ \E d \in DocIds : ProcessPdf(d)
    \/ \E d \in DocIds, ok \in BOOLEAN : EnsureCheck(d, ok)
    \/ \E d \in DocIds, ok \in BOOLEAN : EnsureCreate(d, ok)
    \/ \E d \in DocIds, fault \in EmbedFaults : Embed(d, fault)
    \/ \E d \in DocIds, ok \in BOOLEAN : StoreBatch(d, ok)
    \/ \E d \in DocIds, ok \in BOOLEAN : Cleanup(d, ok)
    \/ \E query \in QueryTexts, top_k \in TopKs, fault \in Faults :
          query_documents(query, top_k, fault)
    \/ \E document_id \in {OldDoc} \cup 1..uploads, ok \in BOOLEAN :
          delete_by_document_id(document_id, ok)

Spec == Init /\ [][Next]_vars

SpecBatch == InitBatch /\ [][Next]_vars

\* The job runner goes on with a run it was handed, and each call the
\* handler makes returns or fails.
JobStep ==
    \E d \in DocIds :
       \/ ProcessPdf(d)
       \/ \E ok \in BOOLEAN : EnsureCheck(d, ok)
       \/ \E ok \in BOOLEAN : EnsureCreate(d, ok)
       \/ \E fault \in EmbedFaults : Embed(d, fault)
       \/ \E ok \in BOOLEAN : StoreBatch(d, ok)
       \/ \E ok \in BOOLEAN : Cleanup(d, ok)

Fairness == WF_vars(JobStep)

\* The application starts with its last upload dispatched and not
\* delivered yet, whatever the file and the backend.
InitLive == InitWith(InitBackends, FALSE, Samples, MaxUploads)

SpecLive == InitLive /\ [][Next]_vars /\ Fairness

\* ------------------------------------------------------------------ claims

\* The indices of the chunks a run produced.
ChunkIndices(r) == { i - 1 : i \in DOMAIN r.chunks }

\* Every chunk of the run was stored by an upsert, under the identifier the
\* run drew for it.
AllWritten(r) ==
    \A i \in DOMAIN r.chunks :
       i \in DOMAIN r.point_ids /\
       [id |-> r.point_ids[i], document_id |-> r.document_id, chunk_index |-> i - 1]
          \in written

\* The runs the model holds.
Started_(d) == runs[d].pc # "none"

\* C1: in both modes, a run that has reached the cleanup stage or reports
\* completed has had every chunk of its document written to the index, the
\* chunks were all written when the cleanup stage began, and the source
\* file of a run is gone only if all its chunks were written.
C1_StoreBeforeDelete ==
    \A d \in DocIds :
       LET r == runs[d]
       IN /\ r.pc \in {"cleanup", "completed"} => AllWritten(r)
          /\ "cleaning_up" \in Range(r.steps) =>
                /\ AllWritten(r)
                /\ r.at_cleanup = ChunkIndices(r)
          /\ (Started_(d) /\ r.file_path \notin DOMAIN disk) =>
                /\ AllWritten(r)
                /\ "cleaning_up" \in Range(r.steps)

\* A run of each mode's shape completed with chunks: here one that stored
\* three chunks and removed its file.
C1_Witness ==
    \E d \in DocIds :
       /\ runs[d].pc = "completed"
       /\ Len(runs[d].chunks) = 3
       /\ runs[d].at_cleanup = {0, 1, 2}
       /\ runs[d].file_path \notin DOMAIN disk

\* C2: a completed run's source file no longer exists and a failed run's
\* source file is still in place, whatever stage failed.
C2_FileFate ==
    \A d \in DocIds :
       LET r == runs[d]
       IN /\ r.pc = "completed" => r.file_path \notin DOMAIN disk
          /\ r.pc = "failed" => r.file_path \in DOMAIN disk

\* A run that failed in its cleanup stage, with the file in place.
C2_Witness ==
    \E d \in DocIds :
       /\ runs[d].pc = "failed"
       /\ "cleaning_up" \in Range(runs[d].steps)
       /\ runs[d].file_path \in DOMAIN disk

\* The errors the stage a run is at can raise.
StageErrors(pc) ==
    CASE pc = "received"  -> {"FileNotFoundError", "PdfReadError"}
      [] pc = "check"     -> {"ConnectionError"}
      [] pc = "create"    -> {"ConnectionError", "Conflict"}
      [] pc = "embedding" -> {"EmbeddingError"}
      [] pc = "storing"   -> {"UnexpectedResponse", "ConnectionError"}
      [] pc = "cleanup"   -> {"PermissionError"}
      [] OTHER            -> {}

StageOrder == <<"extracting", "chunking", "storing", "cleaning_up">>

\* The result of a job run is the failure record of this document and of
\* an error of the stage the run was at.
FailureRecord(d, result, pc) ==
    \E error \in StageErrors(pc) :
       result = [success |-> FALSE, document_id |-> d, error |-> error]

\* C3, the results: a failed job run returns {success: false, document_id,
\* error}; a successful one returns chunks_processed equal to the number of
\* chunks produced (and stored) and no error field; no stage ran twice.
C3_Results ==
    \A d \in DocIds :
       LET r == runs[d]
       IN r.mode = "job" =>
             /\ r.pc = "failed" =>
                   /\ DOMAIN r.result = {"success", "document_id", "error"}
                   /\ r.result.success = FALSE
                   /\ r.result.document_id = d
             /\ r.pc = "completed" =>
                   /\ r.result.success = TRUE
                   /\ r.result.document_id = d
                   /\ "error" \notin DOMAIN r.result
                   /\ r.result.chunks_processed = Len(split_text(r.text))
                   /\ r.result.chunks_processed =
                         Cardinality({ x \in written : x.document_id = d })
             /\ r.steps = SubSeq(StageOrder, 1, Len(r.steps))

\* C3, the steps: the step in which a stage of a job run fails takes the
\* run to failed with the failure record of that stage's error, and a
\* failed run takes no further step: its record, the chunks stored for it
\* and its file stay as they are.
C3_Steps ==
    \A d \in DocIds :
       LET r == runs[d]
       IN r.mode = "job" =>
             /\ (r.pc # "failed" /\ runs'[d].pc = "failed") =>
                   FailureRecord(d, runs'[d].result, r.pc)
             /\ r.pc = "failed" =>
                   /\ runs'[d] = r
                   /\ { x \in written' : x.document_id = d }
                         = { x \in written : x.document_id = d }
                   /\ r.file_path \in DOMAIN disk'

\* C3: a failing stage of the job handler ends the run as failed, with the
\* failure record, and no stage runs after it or again.
C3_FailureIsFinal == [](C3_Results) /\ [][C3_Steps]_vars

\* A job run that failed while storing, after extraction and chunking.
C3_Witness ==
    \E d \in DocIds :
       /\ runs[d].mode = "job"
       /\ runs[d].pc = "failed"
       /\ runs[d].steps = SubSeq(StageOrder, 1, 3)
       /\ runs[d].result.document_id = d
       /\ runs[d].result.error \in StageErrors("storing")

\* A handled query whose embedding and search calls succeeded.
Searched == resp.kind = "query" /\ resp.failed \in {"none", "chat"}

\* The matches a search of the stored points returns for the handled query
\* (the query leaves the points as they were).
Found == BackendSearch(points, generate_embedding(resp.query), Len(points))

\* C4: a query calls the language model once if its search returned a
\* match and never otherwise; a search without a match ends the query with
\* the "no relevant documents found" outcome, which no other query has.
C4_ModelCalledOnMatches ==
    resp.kind = "query" =>
       /\ resp.llm_calls = IF Searched /\ Found # <<>> THEN 1 ELSE 0
       /\ resp.llm_calls = 1 => resp.documents # <<>>
       /\ (Searched /\ Found = <<>>) =>
             /\ resp.status_code = 404
             /\ resp.detail = "No relevant documents found"
             /\ resp.documents = <<>>
       /\ resp.status_code = 404 => (Searched /\ Found = <<>>)
       /\ resp.status_code = 200 => resp.llm_calls = 1

\* A query of a ready index without a stored point.
C4_Witness ==
    /\ resp.kind = "query"
    /\ resp.status_code = 404
    /\ resp.llm_calls = 0
    /\ points = <<>>
    /\ HasCollection(collections)

\* The stored point a match was built from.
SourceOf(match) ==
    { j \in DOMAIN points :
         /\ points[j].payload.content = match.content
         /\ points[j].payload.document_id = match.metadata.document_id
         /\ points[j].payload.chunk_index = match.metadata.chunk_index }

\* C5: a search returns min(top_k, number of stored points) matches, in
\* non-increasing order of score; each match carries the content of a
\* stored point, its payload without the content as metadata, and its
\* cosine similarity to the query as score; no point left out scores
\* higher than one returned; on an empty index the result is empty and
\* not an error; the sources of the response are the matches in order.
C5_SearchResult ==
    Searched =>
       LET D == resp.documents
           q == generate_embedding(resp.query)
       IN /\ resp.top_k \in top_k_min..top_k_max
          /\ Len(D) = Min(resp.top_k, Len(points))
          /\ \A i \in DOMAIN D : \A j \in DOMAIN D : i < j => D[i].score >= D[j].score
          /\ \A i \in DOMAIN D :
                /\ DOMAIN D[i] = {"content", "metadata", "score"}
                /\ \E j \in SourceOf(D[i]) :
                      /\ D[i].score = Cosine(q, points[j].vector)
                      /\ "content" \notin DOMAIN D[i].metadata
                      /\ DOMAIN D[i].metadata = DOMAIN points[j].payload \ {"content"}
                      /\ \A k \in DOMAIN D[i].metadata :
                            D[i].metadata[k] = points[j].payload[k]
          /\ \A i \in DOMAIN D : \A j \in DOMAIN D : i # j => SourceOf(D[i]) # SourceOf(D[j])
          /\ \A j \in DOMAIN points :
                (\A i \in DOMAIN D : j \notin SourceOf(D[i])) =>
                   \A i \in DOMAIN D : Cosine(q, points[j].vector) <= D[i].score
          /\ points = <<>> => (D = <<>> /\ resp.status_code # 500)
          /\ resp.status_code = 200 => resp.sources = D

\* A search that cut its result to top_k matches of different scores.
C5_Witness ==
    /\ Searched
    /\ resp.status_code = 200
    /\ resp.top_k > 1
    /\ Len(points) > resp.top_k
    /\ Len(resp.sources) = resp.top_k
    /\ resp.sources[1].score > resp.sources[resp.top_k].score

\* The stored points that carry a document identifier.
PointsOf(document_id) ==
    { j \in DOMAIN points : points[j].payload.document_id = document_id }

\* C6 as stated: once delete_by_document(id) has returned, no search
\* returns a match of document id, whatever ingestion does meanwhile.
C6_NeverAgain ==
    resp.kind = "query" =>
       \A i \in DOMAIN resp.documents :
          resp.documents[i].metadata.document_id \notin deleted

\* C6, the states: while no upsert has stored a chunk of document id since
\* delete_by_document(id) returned, the index holds no point of id and a
\* search returns no match of id.
C6_NoneUntilStoredAgain ==
    /\ \A id \in clean : PointsOf(id) = {}
    /\ resp.kind = "query" =>
          \A i \in DOMAIN resp.documents :
             resp.documents[i].metadata.document_id \notin clean

\* C6, the delete: it removes the points of the document and no other,
\* keeps the order of the rest, and when no point matches it changes
\* nothing and succeeds if the backend answers.
C6_DeleteStep ==
    \A id \in {OldDoc} \cup DocIds :
       /\ delete_by_document_id(id, TRUE) =>
             /\ points' = SelectSeq(points, LAMBDA p : p.payload.document_id # id)
             /\ (PointsOf(id) = {} /\ HasCollection(collections)) =>
                   (points' = points /\ resp'.ok)
       /\ delete_by_document_id(id, FALSE) => (points' = points /\ ~resp'.ok)

\* C6, amended: delete_by_document(id) followed by search returns no chunk
\* of id until an upsert stores chunks of id again.
C6_DeleteThenSearch == [](C6_NoneUntilStoredAgain) /\ [][C6_DeleteStep]_vars

\* A search that returned matches after the delete of a document whose
\* chunks had been stored.
C6_Witness ==
    /\ resp.kind = "query"
    /\ resp.documents # <<>>
    /\ \E id \in clean : \E x \in written : x.document_id = id

\* The stored points of a document, in insertion order.
StoredOf(stored, document_id) ==
    SelectSeq(stored, LAMBDA p : p.payload.document_id = document_id)

\* The point a chunk of a run is to be stored as.
ExpectedPoint(r, i) ==
    [id      |-> r.point_ids[i],
     vector  |-> generate_embedding(r.chunks[i].content),
     payload |-> [k \in {"content"} \cup DOMAIN r.chunks[i].metadata |->
                    IF k = "content" THEN r.chunks[i].content
                    ELSE r.chunks[i].metadata[k]]]

\* The run's add_documents has returned.
Added(r) == r.pc \in {"cleanup", "completed"} \/ "cleaning_up" \in Range(r.steps)

\* C7, the result: when add_documents has returned for n chunks, it
\* returned n pairwise-distinct identifiers no other point ever had, n
\* points were stored for the document, and (unless deleted since) the
\* index holds them in input order, each with its chunk's content and
\* metadata.
C7_Added ==
    \A d \in DocIds :
       LET r == runs[d]
           n == Len(r.chunks)
           ids == Range(r.point_ids)
       IN Added(r) =>
             /\ Len(r.point_ids) = n
             /\ Cardinality(ids) = n
             /\ \A x \in written :
                   x.id \in ids =>
                      (x.document_id = d /\ r.point_ids[x.chunk_index + 1] = x.id)
             /\ { x \in written : x.document_id = d } =
                   { [id |-> r.point_ids[i], document_id |-> d, chunk_index |-> i - 1] :
                        i \in 1..n }
             /\ d \notin deleted =>
                   StoredOf(points, d) = [i \in 1..n |-> ExpectedPoint(r, i)]

\* C7, the batches: a batch write appends between 1 and 100 points, the
\* next ones of the list, and leaves every point stored before it as it
\* was; the run moves on by a whole batch.
C7_BatchStep ==
    \A d \in DocIds :
       LET r == runs[d]
       IN (r.pc = "storing" /\ runs'[d].next # r.next) =>
             /\ runs'[d].next = r.next + batch_size
             /\ Len(points') - Len(points) \in 1..batch_size
             /\ Len(points') - Len(points) = Min(batch_size, Len(r.chunks) - r.next)
             /\ SubSeq(points', 1, Len(points)) = points
             /\ \A j \in (Len(points) + 1)..Len(points') :
                   points'[j] = ExpectedPoint(r, r.next + j - Len(points))

\* C7: batching does not change the result of an upsert.
C7_BatchingIsTransparent == [](C7_Added) /\ [][C7_BatchStep]_vars

\* add_documents returned for a list of more than one batch whose length
\* is not a multiple of the batch size.
C7_Witness ==
    \E d \in DocIds :
       /\ Added(runs[d])
       /\ Len(runs[d].chunks) > batch_size
       /\ Len(runs[d].chunks) % batch_size # 0
       /\ Len(StoredOf(points, d)) = Len(runs[d].chunks)

\* The run failed in a batch write.
FailedInBatch(r) == r.pc = "failed" /\ r.points # <<>> /\ ~Added(r)

\* C8, the states: when the batch write starting at offset next failed,
\* the run is failed with the error of that write, the points stored for
\* the document are those of the earlier batches and no other, and (unless
\* deleted since) the index holds exactly them.
C8_PrefixStored ==
    \A d \in DocIds :
       LET r == runs[d]
       IN FailedInBatch(r) =>
             /\ r.next \in BatchStarts(Len(r.points))
             /\ { x \in written : x.document_id = d } =
                   { Record(r.points[i]) : i \in 1..r.next }
             /\ d \notin deleted => StoredOf(points, d) = SubSeq(r.points, 1, r.next)
             /\ r.mode = "job" => FailureRecord(d, r.result, "storing")
             /\ r.mode = "inline" => r.result.status_code = 500

\* C8, the steps: the failing write stores nothing and removes nothing,
\* and no batch is written for the run afterwards.
C8_FailingStep ==
    \A d \in DocIds :
       LET r == runs[d]
       IN /\ (r.pc = "storing" /\ runs'[d].pc = "failed") =>
                (points' = points /\ written' = written /\ runs'[d].next = r.next)
          /\ FailedInBatch(r) =>
                /\ runs'[d] = r
                /\ { x \in written' : x.document_id = d }
                      = { x \in written : x.document_id = d }

\* C8: a failed batch write leaves the earlier batches stored, stores
\* nothing more, and ends the run as failed.
C8_PrefixOnFailure == [](C8_PrefixStored) /\ [][C8_FailingStep]_vars

\* The second batch write of a run failed after the first one stored its
\* hundred points.
C8_Witness ==
    \E d \in DocIds :
       /\ FailedInBatch(runs[d])
       /\ runs[d].next = batch_size
       /\ Len(StoredOf(points, d)) = batch_size

\* The construction of a job's VectorStore has returned.
JobConstructed(r) ==
    r.mode = "job" /\ (r.pc \in {"embedding", "storing", "cleanup"} \/ r.points # <<>>
                       \/ "storing" \in Range(r.steps))

\* C9, the states: the backend holds at most one collection of the name,
\* and holds one once a construction has returned.
C9_OneCollection ==
    /\ Cardinality({ j \in DOMAIN collections : collections[j].name = CollectionName }) <= 1
    /\ ApiReady => HasCollection(collections)
    /\ \A d \in DocIds : JobConstructed(runs[d]) => HasCollection(collections)

\* C9, the steps: a construction that finds the collection (any that
\* follows one that returned) issues no create, returns without error if
\* the backend answers, and leaves collections and points as they were.
C9_SecondCall ==
    HasCollection(collections) =>
       /\ ApiCheck(TRUE) =>
             (api'.pc = "ready" /\ creates' = creates
              /\ collections' = collections /\ points' = points)
       /\ \A d \in DocIds :
             EnsureCheck(d, TRUE) =>
                (runs'[d].pc = "embedding" /\ creates' = creates
                 /\ collections' = collections /\ points' = points)

\* C9: ensure_ready called after ensure_ready leaves one collection,
\* creates nothing and succeeds.
C9_Idempotent == [](C9_OneCollection) /\ [][C9_SecondCall]_vars

\* Two constructions returned, one after the other: the first created the
\* collection, the second found it.
C9_Witness ==
    /\ ApiReady
    /\ creates = 1
    /\ \E d \in DocIds :
          /\ JobConstructed(runs[d])
          /\ (CollectionName \in runs[d].names) # (CollectionName \in api.names)

\* C10 as stated: once a construction has returned, the backing collection
\* exists with the configured dimensionality and the cosine metric.
C10_CheckedCollection ==
    (ApiReady \/ \E d \in DocIds : JobConstructed(runs[d])) =>
       /\ HasCollection(collections)
       /\ Backing(collections).size = embedding_dimension
       /\ Backing(collections).distance = "Cosine"

\* The run has its chunk sequence.
Chunked(r) == "chunking" \in Range(r.steps)

\* C11: the chunks of a document are the splitter's pieces in order; the
\* chunk at position i (from 0) has chunk_index i, every chunk has
\* total_chunks equal to the length of the sequence, and every chunk
\* carries the document_id, filename and file_path handed to the run.
C11_ChunkMetadata ==
    \A d \in DocIds :
       LET r == runs[d]
           pieces == split_text(r.text)
           n == Len(r.chunks)
       IN Chunked(r) =>
             /\ n = Len(pieces)
             /\ \A i \in 1..n :
                   /\ r.chunks[i].content = pieces[i]
                   /\ DOMAIN r.chunks[i].metadata =
                         {"document_id", "filename", "file_path",
                          "chunk_index", "total_chunks"}
                   /\ r.chunks[i].metadata.chunk_index = i - 1
                   /\ r.chunks[i].metadata.total_chunks = n
                   /\ r.chunks[i].metadata.document_id = d
                   /\ r.chunks[i].metadata.filename = r.filename
                   /\ r.chunks[i].metadata.file_path = r.file_path
             /\ \A i \in 1..n : \A j \in 1..n :
                   i < j => r.chunks[i].metadata.chunk_index
                               < r.chunks[j].metadata.chunk_index

\* A document chunked into three chunks, the last one shorter than the
\* chunk size.
C11_Witness ==
    \E d \in DocIds :
       /\ Chunked(runs[d])
       /\ Len(runs[d].chunks) = 3
       /\ runs[d].chunks[3].metadata.chunk_index = 2
       /\ runs[d].chunks[3].content.to - runs[d].chunks[3].content.from < chunk_size

\* The file names that do not end in ".pdf" (the route decides on the name
\* of the file, not on its bytes).
NotPdfName(name) ==
    \/ Len(name) < 4
    \/ name[Len(name) - 3] # "."
    \/ name[Len(name) - 2] # "p"
    \/ name[Len(name) - 1] # "d"
    \/ name[Len(name)] # "f"

\* C12: the upload of a file whose name does not end in ".pdf" ends with
\* the error 400 and changes nothing: no file is saved, no document
\* identifier drawn, no run started (enqueued or inline), no point
\* identifier drawn and nothing written to the index; and only such an
\* upload ends with 400.
C12_RejectStep ==
    /\ \A name \in FileNames :
          (upload_document(name) /\ NotPdfName(name)) =>
             /\ resp'.status_code = 400
             /\ resp'.detail = "Only PDF files are supported"
             /\ UNCHANGED <<disk, uploads, runs, drawn, points, written,
                            collections, creates>>
    /\ (resp'.kind = "upload" /\ resp'.status_code = 400) =>
          /\ \E name \in FileNames : upload_document(name) /\ NotPdfName(name)
          /\ UNCHANGED <<disk, uploads, runs, drawn, points, written>>

NotFound == resp.status_code = 404 /\ resp.detail = "No relevant documents found"
Failure == resp.status_code = 500 /\ resp.detail = "Error processing query"
Answered == resp.status_code = 200

\* C13: a query ends in exactly one of answered, not found and failure;
\* not found if and only if the embedding and the search succeeded and no
\* point is stored to match; failure if and only if the embedding call,
\* the search or the answer synthesis failed (the backend refusing the
\* search included); a search without a match is never reported as
\* failure.
C13_OutcomesDistinct ==
    resp.kind = "query" =>
       /\ (IF NotFound THEN 1 ELSE 0) + (IF Failure THEN 1 ELSE 0)
             + (IF Answered THEN 1 ELSE 0) = 1
       /\ NotFound <=>
             /\ resp.failed = "none"
             /\ Searchable(collections, generate_embedding(resp.query))
             /\ points = <<>>
       /\ Failure <=>
             \/ resp.failed \in {"embedding", "search", "chat"}
             \/ ~Searchable(collections, generate_embedding(resp.query))
       /\ resp.failed = "chat" => points # <<>>
       /\ Failure => resp.sources = <<>>

\* A failed search of an index without points: reported as failure, not
\* as not found.
C13_Witness ==
    /\ resp.kind = "query"
    /\ resp.failed = "search"
    /\ Failure
    /\ points = <<>>
    /\ HasCollection(collections)

\* An upload was answered with a status of its document.
Answers(status) ==
    /\ resp.kind = "upload"
    /\ resp.status_code = 200
    /\ resp.status = status

\* C14, the states: an upload answered "processing" has enqueued a run of
\* its document_id, its file_path and its filename, has saved the file and
\* has run no stage; an upload answered "completed" has run the pipeline
\* inline in the order process, store, delete, with every chunk stored and
\* the file removed; a run waiting for the job runner has its file; a run
\* is of one mode, and an inline run is over when the request is.
C14_Paths ==
    /\ \A d \in DocIds :
          /\ (Answers("processing") /\ resp.document_id = d) =>
                /\ runs[d] = [NoRun EXCEPT !.pc = "received", !.mode = "job",
                                           !.document_id = d,
                                           !.file_path = UploadPath(d, resp.filename),
                                           !.filename = resp.filename]
                /\ runs[d].file_path \in DOMAIN disk
                /\ { x \in written : x.document_id = d } = {}
          /\ (Answers("completed") /\ resp.document_id = d) =>
                /\ runs[d].mode = "inline"
                /\ runs[d].pc = "completed"
                /\ runs[d].filename = resp.filename
                /\ runs[d].file_path = UploadPath(d, resp.filename)
                /\ runs[d].steps = StageOrder
                /\ AllWritten(runs[d])
                /\ runs[d].at_cleanup = ChunkIndices(runs[d])
                /\ runs[d].file_path \notin DOMAIN disk
          /\ (runs[d].mode = "job" /\ runs[d].pc = "received") =>
                runs[d].file_path \in DOMAIN disk
          /\ runs[d].mode = "inline" => runs[d].pc \in {"completed", "failed"}
          /\ (d <= uploads) <=> (runs[d].mode \in {"job", "inline"})

\* C14, the steps: a run keeps its mode and its three fields, the job
\* runner never takes a step of an inline run, and the upload that starts
\* a run is the one answered "processing", "completed" or with the error
\* of the inline pipeline.
C14_OnePath ==
    \A d \in DocIds :
       /\ runs[d].mode # "none" =>
             /\ runs'[d].mode = runs[d].mode
             /\ runs'[d].file_path = runs[d].file_path
             /\ runs'[d].filename = runs[d].filename
       /\ runs[d].mode = "inline" => runs'[d] = runs[d]
       /\ (runs[d].mode = "none" /\ runs'[d].mode = "job") =>
             (resp'.kind = "upload" /\ resp'.status_code = 200
              /\ resp'.status = "processing" /\ resp'.document_id = d)
       /\ (runs[d].mode = "none" /\ runs'[d].mode = "inline") =>
             /\ resp'.kind = "upload"
             /\ resp'.status_code \in {200, 500}
             /\ resp'.status_code = 200 =>
                   (resp'.status = "completed" /\ resp'.document_id = d)

\* C14: an upload whose file was saved starts ingestion by one path, the
\* enqueued event or the inline pipeline.
C14_ExactlyOnePath == [](C14_Paths) /\ [][C14_OnePath]_vars

\* An upload that ran the pipeline inline for three chunks and answered
\* "completed".
C14_Witness ==
    /\ Answers("completed")
    /\ Len(runs[resp.document_id].chunks) = 3
    /\ runs[resp.document_id].mode = "inline"

\* The positions a run may move to from a position (the construction of
\* the job's vector store lies between chunking and embedding; the batches
\* are steps of the one stage embedding+storing).
NextPositions(pc) ==
    CASE pc = "none"      -> {"received", "completed", "failed"}
      [] pc = "received"  -> {"check", "failed"}
      [] pc = "check"     -> {"create", "embedding", "failed"}
      [] pc = "create"    -> {"embedding", "failed"}
      [] pc = "embedding" -> {"storing", "cleanup", "failed"}
      [] pc = "storing"   -> {"storing", "cleanup", "failed"}
      [] pc = "cleanup"   -> {"completed", "failed"}
      [] OTHER            -> {}

\* The stages a run at a position has entered, for a job run.
StagesAt(pc) ==
    CASE pc \in {"none", "received"}         -> {0}
      [] pc \in {"check", "create", "embedding"} -> {2}
      [] pc \in {"storing", "cleanup"}       -> {3}
      [] pc = "completed"                    -> {4}
      [] OTHER                               -> 1..4

Terminal(r) == r.pc \in {"completed", "failed"}

\* C15, the states: the stages a run has entered are an initial part of
\* extracting, chunking, embedding+storing, cleaning_up, as far as its
\* position says, and all four when it is completed.
C15_Stages ==
    \A d \in DocIds :
       LET r == runs[d]
       IN /\ r.steps = SubSeq(StageOrder, 1, Len(r.steps))
          /\ Len(r.steps) \in StagesAt(r.pc)
          /\ r.pc = "completed" => r.steps = StageOrder

\* C15, the steps: a step of a run moves it to a next position, enters at
\* most the next stages in order, and a terminal run takes no step.
C15_Moves ==
    \A d \in DocIds :
       LET r == runs[d]
       IN /\ runs'[d] # r =>
                /\ runs'[d].pc \in NextPositions(r.pc)
                /\ Len(runs'[d].steps) >= Len(r.steps)
                /\ SubSeq(runs'[d].steps, 1, Len(r.steps)) = r.steps
                /\ r.mode = "job" => Len(runs'[d].steps) <= Len(r.steps) + 2
          /\ Terminal(r) => runs'[d] = r

\* C15: a dispatched run goes through the stages in order, may fail from
\* any of them, and ends completed or failed, for good.
C15_StagesInOrder ==
    /\ [](C15_Stages)
    /\ [][C15_Moves]_vars
    /\ \A d \in DocIds : (runs[d].mode = "job") ~> Terminal(runs[d])

\* A job run that created the collection itself and went through every
\* stage to completed.
C15_Witness ==
    \E d \in DocIds :
       /\ runs[d].mode = "job"
       /\ runs[d].pc = "completed"
       /\ runs[d].steps = StageOrder
       /\ CollectionName \notin runs[d].names

\* C16 as stated: however two constructions interleave, the backend holds
\* at most one collection of the name and no construction fails because
\* of the other (a construction fails only when the backend is out of
\* reach).
C16_NoLostRace ==
    /\ Cardinality({ j \in DOMAIN collections : collections[j].name = CollectionName }) <= 1
    /\ api.error # "Conflict"
    /\ \A d \in DocIds :
          (runs[d].mode = "job" /\ runs[d].pc = "failed") =>
             runs[d].result.error # "Conflict"

\* The run failed in an embedding call.
FailedEmbedding(r) ==
    /\ r.pc = "failed"
    /\ \/ r.mode = "job" /\ r.result.error = "EmbeddingError"
       \/ r.mode = "inline"
          /\ r.result.detail = <<"Error processing document", "EmbeddingError">>

\* C17, the states: a run whose embedding call failed, for whichever
\* chunk, has stored no point of its document; a run that is writing
\* batches has the points of all its chunks.
C17_NothingStored ==
    \A d \in DocIds :
       LET r == runs[d]
       IN /\ FailedEmbedding(r) =>
                /\ { x \in written : x.document_id = d } = {}
                /\ PointsOf(d) = {}
                /\ r.points = <<>>
          /\ r.pc = "storing" => Len(r.points) = Len(r.chunks)
          /\ { x \in written : x.document_id = d } # {} =>
                Len(r.points) = Len(r.chunks)

\* C17, the steps: the step in which an embedding call fails leaves the
\* index as it was.
C17_FailingStep ==
    \A d \in DocIds :
       (~FailedEmbedding(runs[d]) /\ FailedEmbedding(runs'[d])) =>
          (points' = points /\ written' = written /\ collections' = collections)

\* C17: the embeddings of all chunks precede the first batch write, so a
\* failed embedding call leaves the index as it was.
C17_EmbeddingsFirst == [](C17_NothingStored) /\ [][C17_FailingStep]_vars

\* The embedding call failed for the last of three chunks: two
\* identifiers were drawn for points that were never written.
C17_Witness ==
    \E d \in DocIds :
       /\ FailedEmbedding(runs[d])
       /\ Len(runs[d].chunks) = 3
       /\ drawn = Cardinality(written) + 2

\* The run's document was read and no page of it yielded text.
EmptyText(r) == Chunked(r) /\ r.text.len = 0

\* The errors of the calls an empty document still makes: the job's
\* construction of its vector store and the removal of the file.
ReachErrors == {"ConnectionError", "Conflict", "PermissionError"}

\* C18, the states: a document without text has no chunk, never gets to
\* write a batch, and has no point in the index; its run fails only if
\* the backend or the file system fails it, and otherwise completes, the
\* job reporting chunks_processed = 0 and no point identifier, with the
\* file removed.
C18_EmptyDocument ==
    \A d \in DocIds :
       LET r == runs[d]
       IN EmptyText(r) =>
             /\ r.chunks = <<>>
             /\ r.points = <<>> /\ r.point_ids = <<>>
             /\ r.pc # "storing"
             /\ { x \in written : x.document_id = d } = {}
             /\ PointsOf(d) = {}
             /\ (r.pc = "failed" /\ r.mode = "job") => r.result.error \in ReachErrors
             /\ (r.pc = "failed" /\ r.mode = "inline") =>
                   r.result.detail[2] \in ReachErrors
             /\ r.pc = "completed" =>
                   /\ r.file_path \notin DOMAIN disk
                   /\ r.steps = StageOrder
                   /\ r.mode = "job" =>
                         (r.result.success /\ r.result.chunks_processed = 0
                          /\ r.result.point_ids = <<>>)

\* C18, the steps: no step of the run of a document without text draws a
\* point identifier (an identifier is drawn per embedded chunk) or changes
\* the points of the index.
C18_NoCallNoWrite ==
    \A d \in DocIds :
       (runs'[d] # runs[d] /\ EmptyText(runs'[d])) =>
          (drawn' = drawn /\ points' = points /\ written' = written)

\* C18: a document whose extracted text is empty is ingested as zero
\* chunks and reported completed.
C18_EmptyIsNotAnError == [](C18_EmptyDocument) /\ [][C18_NoCallNoWrite]_vars

\* A job run of a document of two pages without text, completed.
C18_Witness ==
    \E d \in DocIds :
       /\ EmptyText(runs[d])
       /\ runs[d].mode = "job"
       /\ runs[d].pc = "completed"
       /\ runs[d].result.chunks_processed = 0
       /\ runs[d].file_path \notin DOMAIN disk

====
